---- MODULE Spec2Model ----
(***************************************************************************)
(* A model of qfile's directory relocation engine: merge, clone and move   *)
(* (src/qfile/relocate.py) over a filesystem of paths, together with the   *)
(* per-thread failure list and the folder/write helpers they rest on.      *)
(*                                                                         *)
(* A path is a sequence of names, absolute and normalised; <<>> is the     *)
(* directory every path of the model lives in.  The filesystem `fs` is a   *)
(* function from the existing paths to their entries.                      *)
(***************************************************************************)
EXTENDS Naturals, Sequences, FiniteSets

VARIABLES fs, thread_failed, default_force, pre, call, calls,
          _cut_files, _copied_files, walk

vars == <<fs, thread_failed, default_force, pre, call, calls,
          _cut_files, _copied_files, walk>>

\* the two mark lists of the clipboard
marks == <<_cut_files, _copied_files>>

-----------------------------------------------------------------------------
(* Bounds of the model *)

\* most entries a tree built by folder/write holds before the first call
MaxEntries == 4
\* longest path handed to folder/write when the tree is built
MaxDepth == 4
\* longest path handed to merge, clone and move as src or dst
MaxArgLen == 2
\* merge/clone/move calls in one behaviour
MaxCalls == 1
\* calls in one behaviour of the two threads
MaxThreadCalls == 2
\* most marks the clipboard holds before a paste
MaxMarks == 2
MaxClipCalls == 3

-----------------------------------------------------------------------------
(* Paths and entries *)

Names == {"a", "b"}
\* names produced by uuid(): never equal to a name a caller wrote
StageNames == <<"u", "v">>
\* the order in which a directory listing returns its entries
NameOrder == <<"a", "b", "u", "v">>

None == "None"

Dir == [kind |-> "dir", data |-> <<>>]
File(d) == [kind |-> "file", data |-> d]

RECURSIVE PathsOfLen(_)
PathsOfLen(n) ==
    IF n = 0 THEN {<<>>}
    ELSE {Append(p, x) : p \in PathsOfLen(n - 1), x \in Names}

PathsUpTo(n) == UNION {PathsOfLen(k) : k \in 1..n}

SetupPaths == PathsUpTo(MaxDepth)
ArgPaths == PathsUpTo(MaxArgLen)

IsPrefix(p, q) == Len(p) <= Len(q) /\ SubSeq(q, 1, Len(p)) = p
StrictPrefix(p, q) == Len(p) < Len(q) /\ SubSeq(q, 1, Len(p)) = p
Suffix(q, n) == SubSeq(q, n + 1, Len(q))
Basename(p) == p[Len(p)]

\* an exists that every path passes
exists_always(f, p) == TRUE

exists(f, p) == p = <<>> \/ p \in DOMAIN f

\* an isdir that any existing path passes
isdir_or_file(f, p) == p = <<>> \/ p \in DOMAIN f

isdir(f, p) == p = <<>> \/ (p \in DOMAIN f /\ f[p].kind = "dir")
isfile(f, p) == p \in DOMAIN f /\ f[p].kind = "file"

parent(p) == SubSeq(p, 1, Len(p) - 1)

\* rel with its arguments taken the other way round
rel_swapped(child, par) ==
    IF IsPrefix(child, par) THEN {Suffix(par, Len(child))} ELSE {}

\* rel(child, parent): Path.relative_to gives a path (always truthy, also
\* for child = parent) or raises ValueError, turned into None: {} is None
rel(child, par) == IF IsPrefix(par, child) THEN {Suffix(child, Len(par))} ELSE {}

uuid(f, dir) ==
    LET free == SelectSeq(StageNames, LAMBDA n : Append(dir, n) \notin DOMAIN f)
    IN  Head(free)

-----------------------------------------------------------------------------
(* The operating-system primitives the library calls *)

Under(f, p) == {q \in DOMAIN f : IsPrefix(p, q)}

\* an rmtree that removes the entry and leaves what is below it
rmtree_shallow(f, p) == [q \in DOMAIN f \ {p} |-> f[q]]

rmtree(f, p) == [q \in DOMAIN f \ Under(f, p) |-> f[q]]

remove(f, p) == [q \in DOMAIN f \ {p} |-> f[q]]

mkdir(f, p) == [q \in DOMAIN f \cup {p} |-> IF q = p THEN Dir ELSE f[q]]

\* os.mkdir fails when the path exists or its parent is no directory
mkdir_err(f, p) ==
    IF exists(f, p) THEN "FileExistsError"
    ELSE IF exists(f, parent(p)) /\ ~isdir(f, parent(p)) THEN "NotADirectoryError"
    ELSE IF ~exists(f, parent(p)) THEN "FileNotFoundError"
    ELSE "ok"

\* a rename that takes the entry at src along and leaves what is below it
rename_shallow(f, s, d) ==
    [q \in (DOMAIN f \ {s}) \cup {d} |-> IF q = d THEN f[s] ELSE f[q]]

\* os.rename of a file or a whole tree onto a path that is free or a file
rename(f, s, d) ==
    LET moved == Under(f, s)
        kept == (DOMAIN f \ moved) \ {d}
    IN  [q \in kept \cup {d \o Suffix(m, Len(s)) : m \in moved} |->
            IF IsPrefix(d, q) /\ q \notin kept
            THEN f[s \o Suffix(q, Len(d))]
            ELSE f[q]]

\* a copy that leaves an existing dst as it is
copyfile_noclobber(f, s, d) ==
    [q \in DOMAIN f \cup {d} |-> IF q \in DOMAIN f THEN f[q] ELSE f[s]]

\* shutil.copy of one file: creates or overwrites dst with src's content
copyfile(f, s, d) == [q \in DOMAIN f \cup {d} |-> IF q = d THEN f[s] ELSE f[q]]

Prefixes(p) == {SubSeq(p, 1, k) : k \in 1..Len(p)}

\* a makedirs that takes any existing path for a directory
makedirs_err_lenient(f, p) == "ok"

\* os.makedirs(p, exist_ok=True)
makedirs_err(f, p) ==
    IF \E q \in Prefixes(p) : isfile(f, q)
    THEN IF isfile(f, p) /\ \A q \in Prefixes(p) \ {p} : ~isfile(f, q)
         THEN "FileExistsError" ELSE "NotADirectoryError"
    ELSE "ok"

makedirs(f, p) ==
    [q \in DOMAIN f \cup Prefixes(p) |-> IF q \in DOMAIN f THEN f[q] ELSE Dir]

-----------------------------------------------------------------------------
(* Force mode and the failure list *)

\* a check_force that looks at the process-wide default only
check_force_default(df, force) == df

\* force is "None", "True" or "False"; None defers to the process-wide default
check_force(df, force) == IF force = None THEN df ELSE force = "True"

FailureRecord(p, d, e) == [path |-> p, wasdir |-> d, err |-> e]

\* the state a call works on: the filesystem, the dictionary of failure
\* lists, "ok" or the error the call raised, and the value it returned
\* ("True", "False", "None", or "path" with the path in rpath)
Raise(f, fl, e) == [fs |-> f, failed |-> fl, status |-> e, ret |-> None, rpath |-> <<>>]
Return(f, fl, r) == [fs |-> f, failed |-> fl, status |-> "ok", ret |-> r, rpath |-> <<>>]
ReturnPath(f, fl, p) ==
    [fs |-> f, failed |-> fl, status |-> "ok", ret |-> "path", rpath |-> p]

\* a set_failed that keeps one list for all threads
set_failed_global(tf, t, l) == [x \in DOMAIN tf \cup {t} |-> l]

\* _thread_failed[threading.get_ident()] = failed_list
set_failed(tf, t, l) == [x \in DOMAIN tf \cup {t} |-> IF x = t THEN l ELSE tf[x]]

\* folder(src, force=force)
folder(f, src, force, df) ==
    IF isdir(f, src) THEN [fs |-> f, status |-> "ok"]
    ELSE IF makedirs_err(f, src) = "ok" THEN [fs |-> makedirs(f, src), status |-> "ok"]
    ELSE IF check_force(df, force)
         THEN LET bad == CHOOSE q \in Prefixes(src) : isfile(f, q)
              IN  [fs |-> makedirs(remove(f, bad), src), status |-> "ok"]
         ELSE [fs |-> f, status |-> makedirs_err(f, src)]

\* the entries a directory listing returns, in listing order
ListDirs(f, top) ==
    SelectSeq(NameOrder, LAMBDA n : isdir(f, Append(top, n)) /\ Append(top, n) \in DOMAIN f)
ListFiles(f, top) ==
    SelectSeq(NameOrder, LAMBDA n : isfile(f, Append(top, n)))

\* a shutil.move that does not look whether dst lies inside src
shutil_move_err_blind(f, s, d) ==
    IF ~exists(f, s) \/ ~isdir(f, parent(d)) THEN "FileNotFoundError"
    ELSE IF isdir(f, s) /\ isfile(f, d) THEN "FileExistsError"
    ELSE "ok"

\* shutil.move(src, dst) for a dst that is no directory: a rename, which
\* fails for a missing src, a directory moved into itself or onto a file
shutil_move_err(f, s, d) ==
    IF ~exists(f, s) \/ ~isdir(f, parent(d)) THEN "FileNotFoundError"
    ELSE IF isdir(f, s) /\ IsPrefix(s, d) THEN "Error"
    ELSE IF isdir(f, s) /\ isfile(f, d) THEN "FileExistsError"
    ELSE "ok"

\* a _move that copies: the source stays where it is
_move_copies(f, s, d) ==
    IF isdir(f, d) THEN [fs |-> f, status |-> "FileExistsError"]
    ELSE IF shutil_move_err(f, s, d) # "ok"
         THEN [fs |-> f, status |-> shutil_move_err(f, s, d)]
    ELSE LET g == rename(f, s, d)
         IN  [fs |-> [q \in DOMAIN f \cup DOMAIN g |-> IF q \in DOMAIN g THEN g[q] ELSE f[q]],
              status |-> "ok"]

\* _move(src_path, dst_path)
_move(f, s, d) ==
    IF isdir(f, d) THEN [fs |-> f, status |-> "FileExistsError"]
    ELSE IF shutil_move_err(f, s, d) # "ok"
         THEN [fs |-> f, status |-> shutil_move_err(f, s, d)]
    ELSE [fs |-> rename(f, s, d), status |-> "ok"]

-----------------------------------------------------------------------------
(* merge (src/qfile/relocate.py) *)

RECURSIVE merge(_, _, _, _, _, _, _, _)
RECURSIVE merge_walk(_, _, _)
RECURSIVE merge_files(_, _, _, _, _)

\* a helper that moves whatever the mode
helper_moves(f, mv, s, d) == rename(f, s, d)

\* helper = shutil.move if move else shutil.copy, applied to one file
helper(f, mv, s, d) == IF mv THEN rename(f, s, d) ELSE copyfile(f, s, d)

\* the "for file in files" loop: every file of one visited folder
merge_files(w, files, fold, dst_folder, c) ==
    IF files = <<>> THEN w
    ELSE LET src_file == Append(fold, Head(files))
             dst_file == Append(dst_folder, Head(files))
             f1 == IF isdir(w.fs, dst_file) THEN rmtree(w.fs, dst_file) ELSE w.fs
             w1 == IF isdir(w.fs, dst_file) /\ ~c.rforce
                   THEN [w EXCEPT !.lfailed =
                            Append(@, FailureRecord(src_file, FALSE, "FileExistsError"))]
                   ELSE IF ~isfile(f1, src_file)
                   THEN [w EXCEPT !.fs = f1, !.lfailed =
                            Append(@, FailureRecord(src_file, FALSE, "FileNotFoundError"))]
                   ELSE [w EXCEPT !.fs = helper(f1, c.move, src_file, dst_file)]
         IN  merge_files(w1, Tail(files), fold, dst_folder, c)

\* what follows the try block in the body of the walk loop: the deletion of
\* the source tree in move mode, the way back of a staged source otherwise
merge_after(w, c) ==
    IF c.move
    THEN IF exists(w.fs, c.src_path) /\ c.src_path # <<>>
         THEN [w EXCEPT !.fs = rmtree(w.fs, c.src_path)]
         ELSE [w EXCEPT !.status = "FileNotFoundError"]
    ELSE IF c.rel_dst # {}
    THEN IF exists(w.fs, c.src)
         THEN LET r == merge(w.fs, w.failed, c.t, c.src_path, c.src, TRUE, c.force, c.df)
              IN  [w EXCEPT !.fs = r.fs, !.failed = r.failed, !.status = r.status]
         ELSE LET r == _move(w.fs, c.src_path, c.src)
              IN  [w EXCEPT !.fs = r.fs, !.status = r.status]
    ELSE w

\* the try block of the body of the walk loop: the folder is made in dst and
\* its files are copied or moved
merge_try(w, fold, files, c) ==
    LET dst_folder == c.dst \o Suffix(fold, Len(c.src_path))
        present == isdir(w.fs, dst_folder)
        f1 == IF ~present /\ c.rforce /\ isfile(w.fs, dst_folder)
              THEN remove(w.fs, dst_folder) ELSE w.fs
        err == IF present THEN "ok" ELSE mkdir_err(f1, dst_folder)
    IN  IF err # "ok"
        THEN [w EXCEPT !.fs = f1,
                       !.lfailed = Append(@, FailureRecord(fold, TRUE, err))]
        ELSE merge_files([w EXCEPT !.fs = IF present THEN f1 ELSE mkdir(f1, dst_folder)],
                         files, fold, dst_folder, c)

\* one pass of the body of "for folder, _, files in walker"
merge_visit(w, fold, files, c) == merge_after(merge_try(w, fold, files, c), c)

\* os.walk, top down: a folder is listed when the walk reaches it, its
\* subfolders are visited after the loop body ran, and a folder that cannot
\* be listed any more is skipped silently (onerror is None)
merge_walk(w, stack, c) ==
    IF w.status # "ok" \/ stack = <<>> THEN w
    ELSE LET top == Head(stack)
         IN  IF ~(top \in DOMAIN w.fs /\ isdir(w.fs, top))
             THEN merge_walk(w, Tail(stack), c)
             ELSE LET dirs == ListDirs(w.fs, top)
                      w1 == merge_visit(w, top, ListFiles(w.fs, top), c)
                                        subs == [i \in 1..Len(dirs) |-> Append(top, dirs[i])]
                  IN  merge_walk(w1, subs \o Tail(stack), c)

\* merge(src, dst, move, force) called by thread t with filesystem f, failure
\* lists fl and process-wide default df
merge(f, fl, t, src, dst, mv, force, df) ==
    IF ~isdir(f, src) THEN Raise(f, fl, "NotADirectoryError")
    ELSE IF ~isdir(f, dst) THEN Raise(f, fl, "NotADirectoryError")
    ELSE IF src = dst THEN Return(f, fl, None)
    ELSE LET rel_dst == rel(src, dst)
             src_path == IF rel_dst # {}
                         THEN Append(parent(dst), uuid(f, parent(dst)))
                         ELSE src
         IN  IF rel_dst = {} /\ rel(dst, src) # {}
             THEN Raise(f, fl, "PermissionError")
             ELSE LET c == [t |-> t, src |-> src, dst |-> dst, src_path |-> src_path,
                            move |-> mv, force |-> force, df |-> df,
                            rforce |-> check_force(df, force), rel_dst |-> rel_dst]
                      f0 == IF rel_dst # {} THEN rename(f, src, src_path) ELSE f
                      w == merge_walk([fs |-> f0, failed |-> fl, lfailed |-> <<>>,
                                       status |-> "ok"], <<src_path>>, c)
                  IN  IF w.status # "ok" THEN Raise(w.fs, w.failed, w.status)
                      ELSE Return(w.fs, set_failed(w.failed, t, w.lfailed),
                                  IF w.lfailed = <<>> THEN "True" ELSE "False")

\* a staging place inside dst
stage_path_inside(f, dst) == Append(dst, uuid(f, dst))

\* src_path = Path(dst).with_name(uuid()): the staging place, next to dst
stage_path(f, dst) == Append(parent(dst), uuid(f, parent(dst)))

NoContext == [t |-> "main", src |-> <<>>, dst |-> <<>>, src_path |-> <<>>,
              move |-> FALSE, force |-> None, df |-> FALSE,
              rforce |-> FALSE, rel_dst |-> {}]

\* merge up to the walk loop: the checks of the endpoints, the resolution of
\* the force mode and the staging of a src that lies inside dst; "walk"
\* says that the loop is entered, "same" that merge returned at once
merge_enter(f, t, src, dst, mv, force, df) ==
    IF ~isdir(f, src) \/ ~isdir(f, dst)
    THEN [status |-> "NotADirectoryError", fs |-> f, c |-> NoContext]
    ELSE IF src = dst THEN [status |-> "same", fs |-> f, c |-> NoContext]
    ELSE IF rel(src, dst) = {} /\ rel(dst, src) # {}
    THEN [status |-> "PermissionError", fs |-> f, c |-> NoContext]
    ELSE IF rel(src, dst) # {}
    THEN [status |-> "walk", fs |-> rename(f, src, stage_path(f, dst)),
          c |-> [t |-> t, src |-> src, dst |-> dst, src_path |-> stage_path(f, dst),
                 move |-> mv, force |-> force, df |-> df,
                 rforce |-> check_force(df, force), rel_dst |-> rel(src, dst)]]
    ELSE [status |-> "walk", fs |-> f,
          c |-> [t |-> t, src |-> src, dst |-> dst, src_path |-> src,
                 move |-> mv, force |-> force, df |-> df,
                 rforce |-> check_force(df, force), rel_dst |-> {}]]

-----------------------------------------------------------------------------
(* clone and move (src/qfile/relocate.py) *)

\* the resolved destination: dst itself, or dst/<basename of src> with into
Target(src, dst, into) == IF into THEN Append(dst, Basename(src)) ELSE dst

\* shutil.copy(src, dst) of a file onto a path that is no directory
shutil_copy_err(f, s, d) ==
    IF ~isfile(f, s) \/ ~isdir(f, parent(d)) THEN "FileNotFoundError"
    ELSE IF s = d THEN "SameFileError"
    ELSE "ok"

clone(f, fl, t, src, dst, into, force, df) ==
    IF ~exists(f, src) THEN Raise(f, fl, "FileNotFoundError")
    ELSE LET tdst == Target(src, dst, into)
         IN  IF isdir(f, src)
             THEN LET d == folder(f, tdst, force, df)
                      m == merge(d.fs, fl, t, src, tdst, FALSE, force, df)
                  IN  IF d.status # "ok" THEN Raise(d.fs, fl, d.status)
                      ELSE IF m.status # "ok" THEN m
                      ELSE ReturnPath(m.fs, m.failed, tdst)
             ELSE IF isdir(f, tdst) /\ ~check_force(df, force)
             THEN Raise(f, fl, "FileExistsError")
             ELSE LET f1 == IF isdir(f, tdst) THEN rmtree(f, tdst) ELSE f
                      d == folder(f1, parent(tdst), force, df)
                  IN  IF d.status # "ok" THEN Raise(d.fs, fl, d.status)
                      ELSE IF shutil_copy_err(d.fs, src, tdst) # "ok"
                      THEN Raise(d.fs, set_failed(fl, t, <<>>), shutil_copy_err(d.fs, src, tdst))
                      ELSE ReturnPath(copyfile(d.fs, src, tdst), set_failed(fl, t, <<>>), tdst)

\* the end of every branch of move: _move(src_path, dst_path); return tdst
move_finish(f, fl, src, tdst) ==
    LET r == _move(f, src, tdst)
    IN  IF r.status # "ok" THEN Raise(r.fs, fl, r.status)
        ELSE ReturnPath(r.fs, fl, tdst)

move(f, fl, t, src, dst, into, force, df) ==
    IF ~exists(f, src) THEN Raise(f, fl, "FileNotFoundError")
    ELSE LET tdst == Target(src, dst, into)
             rforce == check_force(df, force)
             fl0 == set_failed(fl, t, <<>>)
         IN  IF exists(f, tdst)
             THEN IF isdir(f, src)
                  THEN IF isfile(f, tdst)
                       THEN IF rforce THEN move_finish(remove(f, tdst), fl0, src, tdst)
                            ELSE Raise(f, fl0, "FileExistsError")
                       ELSE LET m == merge(f, fl0, t, src, tdst, TRUE, force, df)
                            IN  IF m.status # "ok" THEN m
                                ELSE ReturnPath(m.fs, m.failed, tdst)
                  ELSE IF isdir(f, tdst)
                       THEN IF rforce THEN move_finish(rmtree(f, tdst), fl0, src, tdst)
                            ELSE Raise(f, fl0, "FileExistsError")
                       ELSE move_finish(remove(f, tdst), fl0, src, tdst)
             ELSE LET d == folder(f, parent(tdst), force, df)
                  IN  IF d.status # "ok" THEN Raise(d.fs, fl0, d.status)
                      ELSE move_finish(d.fs, fl0, src, tdst)

-----------------------------------------------------------------------------
(* write and delete (src/qfile/__init__.py), single-path forms *)

\* the data written to the file at p: every written file has its own
DataOf(p) == p

writefile(f, p, data) ==
    [q \in DOMAIN f \cup {p} |-> IF q = p THEN File(data) ELSE f[q]]

\* write(src, data) with non-empty data
write(f, src, force, df) ==
    IF isdir(f, src) /\ ~check_force(df, force)
    THEN [fs |-> f, status |-> "FileExistsError"]
    ELSE LET f1 == IF isdir(f, src) THEN rmtree(f, src) ELSE f
             d == folder(f1, parent(src), force, df)
         IN  IF d.status # "ok" THEN d
             ELSE [fs |-> writefile(d.fs, src, DataOf(src)), status |-> "ok"]

\* delete(src) of one path: never raises, the failure goes into the list
delete(f, fl, t, src) ==
    IF isdir(f, src) THEN Return(rmtree(f, src), set_failed(fl, t, <<>>), "True")
    ELSE IF isfile(f, src) THEN Return(remove(f, src), set_failed(fl, t, <<>>), "True")
    ELSE Return(f, set_failed(fl, t, <<FailureRecord(src, FALSE, "FileNotFoundError")>>),
                "False")

-----------------------------------------------------------------------------
(* The clipboard (src/qfile/clipboard.py) *)

\* what cut, copy, a_cut and a_copy are handed and what the mark lists hold:
\* one path, or an iterable of such items
PathItem(p) == [kind |-> "path", path |-> p, elems |-> <<>>]
IterItem(es) == [kind |-> "iter", path |-> <<>>, elems |-> es]

\* the loop of a_cut and a_copy over *src: a path is appended, an iterable
\* extends the list by its elements
RECURSIVE a_mark(_, _)
a_mark(list, src) ==
    IF src = <<>> THEN list
    ELSE a_mark(IF Head(src).kind = "path" THEN Append(list, Head(src))
                ELSE list \o Head(src).elems,
                Tail(src))

a_cut(cf, src) == a_mark(cf, src)
a_copy(cpf, src) == a_mark(cpf, src)

unmark == [cut |-> <<>>, copied |-> <<>>]

\* cut(*src): unmark(); a_cut(src) - the tuple src is handed on as one item
cut(src) == [cut |-> a_cut(unmark.cut, <<IterItem(src)>>), copied |-> unmark.copied]
\* copy(*src): unmark(); a_copy(src)
copy(src) == [cut |-> unmark.cut, copied |-> a_copy(unmark.copied, <<IterItem(src)>>)]

\* the folder paste hands to move/clone for one marked path
paste_dst(file, dst, root) ==
    IF root = {} \/ rel(file, CHOOSE r \in root : TRUE) = {} THEN dst
    ELSE dst \o parent(CHOOSE x \in rel(file, CHOOSE r \in root : TRUE) : TRUE)

\* the helper of paste for one marked path: move for the cut list, clone
\* for the copied list, always with into=True
paste_helper(w, mv, t, file, d, force, df) ==
    IF mv THEN move(w.fs, w.failed, t, file, d, TRUE, force, df)
    ELSE clone(w.fs, w.failed, t, file, d, TRUE, force, df)

\* the body of "for file in files" once the helper came back with r: its
\* OSError is caught by a handler that calls isdir() without an argument
\* (TypeError); lfailed.extend(failed()) needs a list of this thread
\* (KeyError otherwise)
paste_record(w, r, t) ==
    IF r.status # "ok"
    THEN [w EXCEPT !.fs = r.fs, !.failed = r.failed, !.status = "TypeError"]
    ELSE IF t \notin DOMAIN r.failed
    THEN [w EXCEPT !.fs = r.fs, !.failed = r.failed, !.status = "KeyError"]
    ELSE [w EXCEPT !.fs = r.fs, !.failed = r.failed, !.lfailed = @ \o r.failed[t]]

\* "for file in files" of paste for one of the two lists; a mark that is no
\* path makes the helper raise TypeError
RECURSIVE paste_files(_, _, _, _, _, _, _, _)
paste_files(w, files, mv, t, dst, root, force, df) ==
    IF w.status # "ok" \/ files = <<>> THEN w
    ELSE IF Head(files).kind # "path" THEN [w EXCEPT !.status = "TypeError"]
    ELSE paste_files(
            paste_record(w, paste_helper(w, mv, t, Head(files).path,
                                         paste_dst(Head(files).path, dst, root),
                                         force, df), t),
            Tail(files), mv, t, dst, root, force, df)

\* the end of paste: set_failed(lfailed); unmark() - unless an exception
\* left the loops
paste_finish(w, t, cf, cpf) ==
    IF w.status # "ok"
    THEN [fs |-> w.fs, failed |-> w.failed, status |-> w.status, ret |-> None,
          rpath |-> <<>>, cut |-> cf, copied |-> cpf]
    ELSE [fs |-> w.fs, failed |-> set_failed(w.failed, t, w.lfailed),
          status |-> "ok", ret |-> None, rpath |-> <<>>,
          cut |-> unmark.cut, copied |-> unmark.copied]

\* paste(dst, root, force) called by thread t: root is {} for None
paste(f, fl, t, cf, cpf, dst, root, force, df) ==
    paste_finish(
        paste_files(
            paste_files([fs |-> f, failed |-> fl, lfailed |-> <<>>, status |-> "ok"],
                        cf, TRUE, t, dst, root, force, df),
            cpf, FALSE, t, dst, root, force, df),
        t, cf, cpf)

-----------------------------------------------------------------------------
(* The state machine *)

Threads == {"main"}

NoCall == [op |-> "none", thread |-> "main", src |-> <<>>, dst |-> <<>>,
           move |-> FALSE, into |-> FALSE, force |-> None,
           status |-> "ok", ret |-> None, rpath |-> <<>>,
           root |-> {}, args |-> <<>>, cut |-> <<>>, copied |-> <<>>,
           forced |-> FALSE]

EmptyFs == [q \in {} |-> Dir]

Init ==
    /\ fs = EmptyFs
    /\ thread_failed = [x \in {} |-> <<>>]
    /\ default_force = FALSE
    /\ pre = EmptyFs
    /\ call = NoCall
    /\ calls = 0
    /\ _cut_files = <<>>
    /\ _copied_files = <<>>
    /\ walk = <<>>

Size(f) == Cardinality(DOMAIN f)

\* folder(p): builds the tree the calls work on
Folder(p) ==
    /\ calls = 0
    /\ LET r == folder(fs, p, None, default_force)
       IN  /\ Size(r.fs) <= MaxEntries
           /\ fs' = r.fs
    /\ UNCHANGED <<thread_failed, default_force, pre, call, calls, marks, walk>>

\* write(p, data)
Write(p) ==
    /\ calls = 0
    /\ LET r == write(fs, p, None, default_force)
       IN  /\ Size(r.fs) <= MaxEntries
           /\ fs' = r.fs
    /\ UNCHANGED <<thread_failed, default_force, pre, call, calls, marks, walk>>

\* delete(p)
Delete(t, p) ==
    /\ calls = 0
    /\ LET r == delete(fs, thread_failed, t, p)
       IN  /\ fs' = r.fs
           /\ thread_failed' = r.failed
    /\ UNCHANGED <<default_force, pre, call, calls, marks, walk>>

Finish(r, rec) ==
    /\ fs' = r.fs
    /\ thread_failed' = r.failed
    /\ pre' = fs
    /\ call' = [rec EXCEPT !.status = r.status, !.ret = r.ret, !.rpath = r.rpath]
    /\ calls' = calls + 1
    /\ UNCHANGED <<default_force, marks, walk>>

Forces == {None, "True", "False"}

Merge(t, src, dst, mv, force) ==
    /\ calls < MaxCalls
    /\ Finish(merge(fs, thread_failed, t, src, dst, mv, force, default_force),
              [NoCall EXCEPT !.op = "merge", !.thread = t, !.src = src, !.dst = dst,
                             !.move = mv, !.force = force])

Clone(t, src, dst, into, force) ==
    /\ calls < MaxCalls
    /\ Finish(clone(fs, thread_failed, t, src, dst, into, force, default_force),
              [NoCall EXCEPT !.op = "clone", !.thread = t, !.src = src, !.dst = dst,
                             !.into = into, !.force = force])

Move(t, src, dst, into, force) ==
    /\ calls < MaxCalls
    /\ Finish(move(fs, thread_failed, t, src, dst, into, force, default_force),
              [NoCall EXCEPT !.op = "move", !.thread = t, !.src = src, !.dst = dst,
                             !.into = into, !.force = force])

Next ==
    \/ \E p \in SetupPaths : Folder(p)
    \/ \E p \in SetupPaths : Write(p)
    \/ \E t \in Threads, p \in ArgPaths : Delete(t, p)
    \/ \E t \in Threads, src \in ArgPaths, dst \in ArgPaths, mv \in BOOLEAN, force \in Forces :
          Merge(t, src, dst, mv, force)
    \/ \E t \in Threads, src \in ArgPaths, dst \in ArgPaths, into \in BOOLEAN, force \in Forces :
          Clone(t, src, dst, into, force)
    \/ \E t \in Threads, src \in ArgPaths, dst \in ArgPaths, into \in BOOLEAN, force \in Forces :
          Move(t, src, dst, into, force)

Spec == Init /\ [][Next]_vars

-----------------------------------------------------------------------------
(* Pairs of calls: move(X, Y) followed by move(Y, X), and clone(X, Y)      *)
(* followed by delete(Y).  After the second call `pre` is still the tree   *)
(* before the first and `call` still names X as src and Y as dst; its      *)
(* outcome is that of the second call.                                     *)

\* move(call.dst, call.src) after move(call.src, call.dst)
MoveBack(t, force) ==
    /\ calls = 1
    /\ call.op = "move" /\ ~call.into
    /\ LET r == move(fs, thread_failed, t, call.dst, call.src, FALSE, force, default_force)
       IN  /\ fs' = r.fs
           /\ thread_failed' = r.failed
           /\ call' = [call EXCEPT !.op = "move_back", !.thread = t, !.force = force,
                                   !.status = r.status, !.ret = r.ret, !.rpath = r.rpath]
    /\ calls' = calls + 1
    /\ UNCHANGED <<default_force, pre, marks, walk>>

\* delete(call.dst) after clone(call.src, call.dst)
DeleteClone(t) ==
    /\ calls = 1
    /\ call.op = "clone" /\ ~call.into
    /\ LET r == delete(fs, thread_failed, t, call.dst)
       IN  /\ fs' = r.fs
           /\ thread_failed' = r.failed
           /\ call' = [call EXCEPT !.op = "clone_delete", !.thread = t,
                                   !.status = r.status, !.ret = r.ret, !.rpath = r.rpath]
    /\ calls' = calls + 1
    /\ UNCHANGED <<default_force, pre, marks, walk>>

NextPairs ==
    \/ \E p \in SetupPaths : Folder(p)
    \/ \E p \in SetupPaths : Write(p)
    \/ \E t \in Threads, src \in ArgPaths, dst \in ArgPaths, force \in Forces :
          Move(t, src, dst, FALSE, force)
    \/ \E t \in Threads, src \in ArgPaths, dst \in ArgPaths, force \in Forces :
          Clone(t, src, dst, FALSE, force)
    \/ \E t \in Threads, force \in Forces : MoveBack(t, force)
    \/ \E t \in Threads : DeleteClone(t)

SpecPairs == Init /\ [][NextPairs]_vars

-----------------------------------------------------------------------------
(* Calls of two threads, one after the other in any order *)

AllThreads == {"main", "worker"}

\* the paths handed to the calls of the threads and to the clipboard
TopPaths == PathsOfLen(1)

\* the trees the threads work on are no deeper than MaxArgLen
ShallowTree == \A q \in DOMAIN fs : Len(q) <= MaxArgLen

ThreadMayCall == calls < MaxThreadCalls /\ ShallowTree

\* a_cut(p) or a_copy(p) of one path, before the first call
Mark(p, iscut) ==
    /\ calls = 0
    /\ Len(_cut_files) + Len(_copied_files) < MaxMarks
    /\ _cut_files' = IF iscut THEN a_cut(_cut_files, <<PathItem(p)>>) ELSE _cut_files
    /\ _copied_files' = IF iscut THEN _copied_files ELSE a_copy(_copied_files, <<PathItem(p)>>)
    /\ UNCHANGED <<fs, thread_failed, default_force, pre, call, calls, walk>>

\* one mark is enough for the pastes of the threads
ThreadMark(p, iscut) ==
    /\ _cut_files = <<>> /\ _copied_files = <<>>
    /\ Mark(p, iscut)

ThreadMerge(t, src, dst, mv, force) ==
    /\ ThreadMayCall
    /\ Finish(merge(fs, thread_failed, t, src, dst, mv, force, default_force),
              [NoCall EXCEPT !.op = "merge", !.thread = t, !.src = src, !.dst = dst,
                             !.move = mv, !.force = force])

ThreadClone(t, src, dst, into, force) ==
    /\ ThreadMayCall
    /\ Finish(clone(fs, thread_failed, t, src, dst, into, force, default_force),
              [NoCall EXCEPT !.op = "clone", !.thread = t, !.src = src, !.dst = dst,
                             !.into = into, !.force = force])

ThreadMove(t, src, dst, into, force) ==
    /\ ThreadMayCall
    /\ Finish(move(fs, thread_failed, t, src, dst, into, force, default_force),
              [NoCall EXCEPT !.op = "move", !.thread = t, !.src = src, !.dst = dst,
                             !.into = into, !.force = force])

\* paste(dst, root, force): the whole call, marks included
PasteDone(r, t, dst, root, force) ==
    /\ fs' = r.fs
    /\ thread_failed' = r.failed
    /\ _cut_files' = r.cut
    /\ _copied_files' = r.copied
    /\ pre' = fs
    /\ call' = [NoCall EXCEPT !.op = "paste", !.thread = t, !.dst = dst,
                              !.into = TRUE, !.force = force, !.status = r.status,
                              !.ret = r.ret, !.root = root,
                              !.cut = _cut_files, !.copied = _copied_files]
    /\ calls' = calls + 1
    /\ UNCHANGED <<default_force, walk>>

DoPaste(t, dst, root, force) ==
    PasteDone(paste(fs, thread_failed, t, _cut_files, _copied_files, dst, root, force,
                    default_force),
              t, dst, root, force)

ThreadPaste(t, dst, force) ==
    /\ ThreadMayCall
    /\ DoPaste(t, dst, {}, force)

NextThreads ==
    \/ \E p \in SetupPaths : Folder(p)
    \/ \E p \in SetupPaths : Write(p)
    \/ \E p \in TopPaths, iscut \in BOOLEAN : ThreadMark(p, iscut)
    \/ \E t \in AllThreads, src \in TopPaths, dst \in TopPaths, mv \in BOOLEAN :
          ThreadMerge(t, src, dst, mv, None)
    \/ \E t \in AllThreads, src \in TopPaths, dst \in TopPaths, into \in BOOLEAN :
          ThreadClone(t, src, dst, into, None)
    \/ \E t \in AllThreads, src \in TopPaths, dst \in TopPaths, into \in BOOLEAN :
          ThreadMove(t, src, dst, into, None)
    \/ \E t \in AllThreads, dst \in TopPaths : ThreadPaste(t, dst, None)

SpecThreads == Init /\ [][NextThreads]_vars

-----------------------------------------------------------------------------
(* The clipboard: marking calls, then paste *)

\* what the marking calls are handed: single paths and lists of paths
ArgItems ==
    {PathItem(p) : p \in TopPaths}
        \cup {IterItem(<<PathItem(p)>>) : p \in TopPaths}

ArgLists == {<<x>> : x \in ArgItems} \cup {<<x, y>> : x \in ArgItems, y \in ArgItems}

\* the trees the clipboard works on
ClipTree == ShallowTree /\ Size(fs) < MaxEntries

ClipMayCall == calls < MaxClipCalls /\ ClipTree

\* a marking call that leaves the lists m
Marked(m, op, src) ==
    /\ calls + 1 < MaxClipCalls
    /\ Len(m.cut) + Len(m.copied) <= MaxMarks
    /\ _cut_files' = m.cut
    /\ _copied_files' = m.copied
    /\ call' = [NoCall EXCEPT !.op = op, !.args = src,
                              !.cut = _cut_files, !.copied = _copied_files]
    /\ calls' = calls + 1
    /\ UNCHANGED <<fs, thread_failed, default_force, pre, walk>>

\* cut(*src)
Cut(src) == ClipMayCall /\ Marked(cut(src), "cut", src)

\* copy(*src)
Copy(src) == ClipMayCall /\ Marked(copy(src), "copy", src)

\* a_cut(*src)
ACut(src) ==
    /\ ClipMayCall
    /\ Marked([cut |-> a_cut(_cut_files, src), copied |-> _copied_files], "a_cut", src)

\* a_copy(*src)
ACopy(src) ==
    /\ ClipMayCall
    /\ Marked([cut |-> _cut_files, copied |-> a_copy(_copied_files, src)], "a_copy", src)

\* unmark()
Unmark == ClipMayCall /\ Marked(unmark, "unmark", <<>>)

\* paste(dst, root, force)
Paste(t, dst, root, force) ==
    /\ ClipMayCall
    /\ DoPaste(t, dst, root, force)

NextPaste ==
    \/ \E p \in SetupPaths : Folder(p)
    \/ \E p \in SetupPaths : Write(p)
    \/ \E src \in ArgLists : Cut(src)
    \/ \E src \in ArgLists : Copy(src)
    \/ \E src \in ArgLists : ACut(src)
    \/ \E src \in ArgLists : ACopy(src)
    \/ Unmark
    \/ \E t \in Threads, dst \in TopPaths, root \in {{}, {<<"a">>}}, force \in {None, "True"} :
          Paste(t, dst, root, force)

SpecPaste == Init /\ [][NextPaste]_vars

-----------------------------------------------------------------------------
(* merge and the clone of a directory, step by step: the call is entered,  *)
(* the walk visits one folder at a time, what follows the try block of the *)
(* loop body is a step of its own, and qfile.default_force may be set      *)
(* between any two steps.                                                  *)

\* a call is under way
Running == call.status \in {"running", "cloning"}

\* the walk of one merge call: its context, the folders os.walk has listed
\* and not yet yielded, the failures so far, the folders visited, and
\* whether the deletion of the source or the way back of the staged source
\* has run
Frame(c) == [c |-> c, stack |-> <<c.src_path>>, lfailed |-> <<>>, phase |-> "walk",
             seen |-> {}, post |-> FALSE]

Top == walk[Len(walk)]

SetTop(fr) == [walk EXCEPT ![Len(walk)] = fr]

\* the call of rec ends with error e
Aborted(rec, e) ==
    /\ call' = [rec EXCEPT !.status = e]
    /\ walk' = <<>>

\* the record of the call of rec when its merge returned r: merge returns
\* r, clone returns tdst
Returning(rec, r) ==
    IF rec.op = "clone"
    THEN [rec EXCEPT !.status = "ok", !.ret = "path", !.rpath = rec.dst]
    ELSE [rec EXCEPT !.status = "ok", !.ret = r]

\* the call of rec goes on from what merge_enter gave
Entered(e, rec) ==
    /\ fs' = e.fs
    /\ IF e.status = "walk"
       THEN call' = [rec EXCEPT !.status = "running"] /\ walk' = <<Frame(e.c)>>
       ELSE IF e.status = "same"
       THEN call' = Returning(rec, None) /\ walk' = <<>>
       ELSE Aborted(rec, e.status)

\* merge(src, dst, move, force) is called
MergeBegin(t, src, dst, mv, force) ==
    /\ calls < MaxCalls /\ ~Running
    /\ Entered(merge_enter(fs, t, src, dst, mv, force, default_force),
               [NoCall EXCEPT !.op = "merge", !.thread = t, !.src = src, !.dst = dst,
                              !.move = mv, !.force = force,
                              !.forced = check_force(default_force, force)])
    /\ pre' = fs
    /\ calls' = calls + 1
    /\ UNCHANGED <<thread_failed, default_force, marks>>

\* what folder(tdst, force=force) gave to the clone of rec
FolderDone(d, rec) ==
    /\ fs' = d.fs
    /\ call' = [rec EXCEPT !.status = IF d.status = "ok" THEN "cloning" ELSE d.status]

\* clone(src, dst, force) of a directory is called: folder(tdst, force=force)
CloneBegin(t, src, dst, force) ==
    /\ calls < MaxCalls /\ ~Running
    /\ isdir(fs, src)
    /\ FolderDone(folder(fs, dst, force, default_force),
                  [NoCall EXCEPT !.op = "clone", !.thread = t, !.src = src, !.dst = dst,
                                 !.force = force,
                                 !.forced = check_force(default_force, force)])
    /\ pre' = fs
    /\ calls' = calls + 1
    /\ UNCHANGED <<thread_failed, default_force, marks, walk>>

\* the clone goes on: merge(src, tdst, force=force) is called
CloneMerge ==
    /\ call.status = "cloning"
    /\ Entered(merge_enter(fs, call.thread, call.src, call.dst, FALSE, call.force,
                           default_force), call)
    /\ UNCHANGED <<thread_failed, default_force, pre, calls, marks>>

\* the frame after the try block ran for the folder at the head of its stack
Visited(fr, w, subs) ==
    [fr EXCEPT !.stack = subs \o Tail(fr.stack), !.lfailed = w.lfailed,
               !.phase = "after", !.seen = @ \cup {Head(fr.stack)}]

\* the try block has run
Tried(w, subs) ==
    /\ fs' = w.fs
    /\ walk' = SetTop(Visited(Top, w, subs))

\* os.walk yields the next folder and the try block of the loop body runs
\* for it; a folder that cannot be listed any more is skipped
WalkVisit ==
    /\ walk # <<>> /\ Top.phase = "walk" /\ Top.stack # <<>>
    /\ IF ~(Head(Top.stack) \in DOMAIN fs /\ isdir(fs, Head(Top.stack)))
       THEN /\ walk' = SetTop([Top EXCEPT !.stack = Tail(@)])
            /\ UNCHANGED fs
       ELSE Tried(merge_try([fs |-> fs, failed |-> thread_failed,
                             lfailed |-> Top.lfailed, status |-> "ok"],
                            Head(Top.stack), ListFiles(fs, Head(Top.stack)), Top.c),
                  [i \in 1..Len(ListDirs(fs, Head(Top.stack))) |->
                      Append(Head(Top.stack), ListDirs(fs, Head(Top.stack))[i])])
    /\ UNCHANGED <<thread_failed, default_force, pre, call, calls, marks>>

\* the frame after the deletion of the source or the way back has run
PostDone == [Top EXCEPT !.phase = "walk", !.post = TRUE]

\* the way back of the staged source begins with a merge of its own
Reconcile(e) ==
    /\ fs' = e.fs
    /\ IF e.status = "walk"
       THEN walk' = Append(SetTop(PostDone), Frame(e.c)) /\ UNCHANGED call
       ELSE IF e.status = "same"
       THEN walk' = SetTop(PostDone) /\ UNCHANGED call
       ELSE Aborted(call, e.status)

\* the staged source is moved back as a whole
MovedBack(r) ==
    /\ fs' = r.fs
    /\ IF r.status = "ok"
       THEN walk' = SetTop(PostDone) /\ UNCHANGED call
       ELSE Aborted(call, r.status)

\* what follows the try block in the loop body (relocate.py:103-111)
WalkAfter ==
    /\ walk # <<>> /\ Top.phase = "after"
    /\ IF Top.c.move
       THEN IF exists(fs, Top.c.src_path) /\ Top.c.src_path # <<>>
            THEN /\ fs' = rmtree(fs, Top.c.src_path)
                 /\ walk' = SetTop(PostDone)
                 /\ UNCHANGED call
            ELSE Aborted(call, "FileNotFoundError") /\ UNCHANGED fs
       ELSE IF Top.c.rel_dst # {}
       THEN IF exists(fs, Top.c.src)
            THEN Reconcile(merge_enter(fs, Top.c.t, Top.c.src_path, Top.c.src, TRUE,
                                       Top.c.force, default_force))
            ELSE MovedBack(_move(fs, Top.c.src_path, Top.c.src))
       ELSE /\ walk' = SetTop([Top EXCEPT !.phase = "walk"])
            /\ UNCHANGED <<fs, call>>
    /\ UNCHANGED <<thread_failed, default_force, pre, calls, marks>>

\* the loop is over: set_failed(lfailed); return not bool(lfailed)
WalkReturn ==
    /\ walk # <<>> /\ Top.phase = "walk" /\ Top.stack = <<>>
    /\ thread_failed' = set_failed(thread_failed, Top.c.t, Top.lfailed)
    /\ walk' = SubSeq(walk, 1, Len(walk) - 1)
    /\ call' = IF Len(walk) > 1 THEN call
               ELSE Returning(call, IF Top.lfailed = <<>> THEN "True" ELSE "False")
    /\ UNCHANGED <<fs, default_force, pre, calls, marks>>

\* qfile.default_force = b, before the call or while it runs
ChangeDefaultForce(b) ==
    /\ calls = 0 \/ Running
    /\ default_force' = b
    /\ UNCHANGED <<fs, thread_failed, pre, call, calls, marks, walk>>

WalkStep == CloneMerge \/ WalkVisit \/ WalkAfter \/ WalkReturn

NextWalk ==
    \/ \E p \in SetupPaths : Folder(p)
    \/ \E p \in SetupPaths : Write(p)
    \/ \E b \in BOOLEAN : ChangeDefaultForce(b)
    \/ \E t \in Threads, src \in ArgPaths, dst \in ArgPaths, mv \in BOOLEAN,
          force \in {None, "True"} : MergeBegin(t, src, dst, mv, force)
    \/ \E t \in Threads, src \in ArgPaths, dst \in ArgPaths, force \in {None, "True"} :
          CloneBegin(t, src, dst, force)
    \/ CloneMerge
    \/ WalkVisit
    \/ WalkAfter
    \/ WalkReturn

SpecWalk == Init /\ [][NextWalk]_vars

\* a call that has begun goes on
SpecWalkFair == SpecWalk /\ WF_vars(WalkStep)

-----------------------------------------------------------------------------
(* Calls under either process-wide default *)

\* qfile.default_force = b
SetDefaultForce(b) ==
    /\ calls = 0
    /\ default_force' = b
    /\ UNCHANGED <<fs, thread_failed, pre, call, calls, marks, walk>>

ForceMerge(t, src, dst, mv, force) == ShallowTree /\ Merge(t, src, dst, mv, force)

ForceClone(t, src, dst, into, force) == ShallowTree /\ Clone(t, src, dst, into, force)

ForceMove(t, src, dst, into, force) == ShallowTree /\ Move(t, src, dst, into, force)

NextForce ==
    \/ \E p \in SetupPaths : Folder(p)
    \/ \E p \in SetupPaths : Write(p)
    \/ \E b \in BOOLEAN : SetDefaultForce(b)
    \/ \E t \in Threads, src \in ArgPaths, dst \in ArgPaths, mv \in BOOLEAN, force \in Forces :
          ForceMerge(t, src, dst, mv, force)
    \/ \E t \in Threads, src \in ArgPaths, dst \in ArgPaths, into \in BOOLEAN, force \in Forces :
          ForceClone(t, src, dst, into, force)
    \/ \E t \in Threads, src \in ArgPaths, dst \in ArgPaths, into \in BOOLEAN, force \in Forces :
          ForceMove(t, src, dst, into, force)

SpecForce == Init /\ [][NextForce]_vars

-----------------------------------------------------------------------------
(* What the claims speak about: the last call, the tree before it (pre)    *)
(* and the tree after it (fs)                                              *)

\* the resolved destination of the last call
Tdst == IF call.op = "merge" THEN call.dst ELSE Target(call.src, call.dst, call.into)

\* the last call merged directory src into directory Tdst, by copying (mv
\* FALSE: merge, or clone of a directory) or by moving (mv TRUE: merge with
\* move=True, or move of a directory onto a directory)
MergedDirs(mv) ==
    /\ \/ call.op = "merge" /\ call.move = mv
       \/ call.op = "clone" /\ ~mv
       \/ call.op = "move" /\ mv
    /\ call.src \in DOMAIN pre /\ isdir(pre, call.src)
    /\ Tdst \in DOMAIN pre /\ isdir(pre, Tdst)

Nested(p, q) == IsPrefix(p, q) \/ IsPrefix(q, p)

FilesUnder(f, p) == {q \in Under(f, p) : f[q].kind = "file"}
FoldersUnder(f, p) == {q \in Under(f, p) : f[q].kind = "dir"}

\* the path under the destination that corresponds to q under src
Counterpart(q) == Tdst \o Suffix(q, Len(call.src))

\* some entry of src meets an entry of the other kind at its counterpart
TypeConflict ==
    \E q \in Under(pre, call.src) \ {call.src} :
        Counterpart(q) \in DOMAIN pre /\ pre[Counterpart(q)].kind # pre[q].kind

\* the file q of the old tree is now at its counterpart, content intact
AtDst(q) == Counterpart(q) \in DOMAIN fs /\ fs[Counterpart(q)] = pre[q]
\* the entry q of the old tree is still where it was, unchanged
Kept(q) == q \in DOMAIN fs /\ fs[q] = pre[q]

Returned == call.op # "none" /\ call.status = "ok"

\* the failure list failed() hands to the caller of the last call
HasFailed == call.thread \in DOMAIN thread_failed
Failed == thread_failed[call.thread]

\* a file of src two or more levels below it
DeepFile(q) == q \in FilesUnder(pre, call.src) /\ Len(q) >= Len(call.src) + 2

-----------------------------------------------------------------------------
(* C1 - move of a directory onto an existing directory (no nesting, no     *)
(* type conflict) ends with every file of src, at any depth, under dst at  *)
(* the same relative path with its content, and with src gone.             *)
C1_MoveMergesWholeTree ==
    (call.op = "move" /\ MergedDirs(TRUE) /\ ~Nested(call.src, Tdst) /\ ~TypeConflict)
        => /\ \A q \in FilesUnder(pre, call.src) : AtDst(q)
           /\ ~exists(fs, call.src)

(* C2 - a merge in move mode that returns destroys no source file it did   *)
(* not relocate: every file of src is afterwards under dst or still at its *)
(* source path.                                                            *)
C2_MoveModeLosesNoFile ==
    (MergedDirs(TRUE) /\ Returned /\ call.src # Tdst)
        => \A q \in FilesUnder(pre, call.src) : AtDst(q) \/ Kept(q)


-----------------------------------------------------------------------------
\* every folder of src is a folder under dst, every file of src is a file
\* under dst with src's content
CopiedAll ==
    /\ \A q \in FoldersUnder(pre, call.src) : isdir(fs, Counterpart(q))
    /\ \A q \in FilesUnder(pre, call.src) : AtDst(q)

\* the tree under p is what it was before the call
SameTree(p) == Under(fs, p) = Under(pre, p) /\ \A q \in Under(pre, p) : Kept(q)

\* no entry of the tree carries a name made by uuid()
IsStageName(n) == \E i \in 1..Len(StageNames) : StageNames[i] = n
NoStaging == \A q \in DOMAIN fs : \A i \in 1..Len(q) : ~IsStageName(q[i])

(* C3 as stated - a merge in copy mode (or the clone of a directory) of    *)
(* src into dst, neither inside the other, ends with every folder and      *)
(* every file of src under dst, files with src's content.                  *)
C3_CopyMergeCopiesAll_AsStated ==
    (MergedDirs(FALSE) /\ ~Nested(call.src, Tdst)) => Returned /\ CopiedAll

\* the force mode the last call resolved
Forced == check_force(default_force, call.force)

(* C3 as amended - the same, for src and dst without type conflict or for  *)
(* a call in force mode.                                                   *)
C3_CopyMergeCopiesAll ==
    (MergedDirs(FALSE) /\ ~Nested(call.src, Tdst) /\ (~TypeConflict \/ Forced))
        => Returned /\ CopiedAll

\* a copy-mode merge returned after copying a file from two levels below src
C3_Witness ==
    /\ MergedDirs(FALSE) /\ ~Nested(call.src, Tdst) /\ ~TypeConflict /\ Returned
    /\ \E q \in FilesUnder(pre, call.src) : DeepFile(q) /\ AtDst(q)

\* the entries of dst that have no counterpart in src
NoCounterpart(q) == call.src \o Suffix(q, Len(Tdst)) \notin DOMAIN pre
DstOnly == {q \in Under(pre, Tdst) \ {Tdst} : NoCounterpart(q)}

\* the last call was a merge, or the clone of a directory
MergeOrDirClone ==
    \/ call.op = "merge" /\ isdir(pre, call.src) /\ isdir(pre, Tdst)
    \/ call.op = "clone" /\ isdir(pre, call.src) /\ ~isfile(pre, Tdst)
CopyMode == call.op = "clone" \/ ~call.move

(* C4 as stated - a merge or directory clone without type conflict leaves  *)
(* unchanged every entry of dst without counterpart in src and, in copy    *)
(* mode with src and dst not nested, the whole src tree.                   *)
C4_Frame_AsStated ==
    (MergeOrDirClone /\ ~TypeConflict)
        => /\ \A q \in DstOnly : Kept(q)
           /\ (CopyMode /\ ~Nested(call.src, Tdst)) => SameTree(call.src)

(* C4 as amended - the same, but in move mode the entries of dst that are  *)
(* left unchanged are those outside src (src may lie inside dst, and is    *)
(* then moved away).                                                       *)
C4_Frame ==
    (MergeOrDirClone /\ ~TypeConflict)
        => /\ \A q \in DstOnly : (CopyMode \/ ~IsPrefix(call.src, q)) => Kept(q)
           /\ (CopyMode /\ ~Nested(call.src, Tdst)) => SameTree(call.src)

\* a copy-mode merge put a file of src into a dst that holds an entry of
\* its own
C4_Witness ==
    /\ call.op = "merge" /\ MergeOrDirClone /\ ~TypeConflict /\ Returned
    /\ CopyMode /\ ~Nested(call.src, Tdst)
    /\ DstOnly # {}
    /\ \E q \in FilesUnder(pre, call.src) : Counterpart(q) \notin DOMAIN pre /\ AtDst(q)

\* the last call was merge(src, dst) of a directory src lying strictly
\* inside the directory dst
MergeFromInside(mv) ==
    /\ call.op = "merge" /\ call.move = mv
    /\ isdir(pre, call.src) /\ isdir(pre, call.dst)
    /\ StrictPrefix(call.dst, call.src)

(* C5 - merge(A, B) in copy mode with A strictly inside B (and no type     *)
(* conflict between them) ends with every file of A, at any depth, under B *)
(* at the same relative path, A restored as it was, and no staging         *)
(* directory left.                                                         *)
C5_CopyFromInside ==
    (MergeFromInside(FALSE) /\ ~TypeConflict)
        => /\ Returned
           /\ \A q \in FilesUnder(pre, call.src) : AtDst(q)
           /\ SameTree(call.src)
           /\ NoStaging

(* C6 - merge(A, B, move=True) with A strictly inside B (and no type       *)
(* conflict between them) ends with every file of A, at any depth, under B *)
(* at the same relative path, A gone, and no staging directory left.       *)
C6_MoveFromInside ==
    (MergeFromInside(TRUE) /\ ~TypeConflict)
        => /\ Returned
           /\ \A q \in FilesUnder(pre, call.src) : AtDst(q)
           /\ ~exists(fs, call.src)
           /\ NoStaging

\* the last call was merge(A, B) of directories with B strictly inside A
MergeIntoInside ==
    /\ call.op = "merge"
    /\ isdir(pre, call.src) /\ isdir(pre, call.dst)
    /\ StrictPrefix(call.src, call.dst)

(* C7 - merge(A, B) with B strictly inside A raises PermissionError, in    *)
(* copy and in move mode and for every force value, and leaves the         *)
(* filesystem as it was.                                                   *)
C7_MergeIntoInsideRaises ==
    MergeIntoInside => call.status = "PermissionError" /\ fs = pre

\* merge(A, B, move=True, force=True) was refused for a B inside an A that
\* holds a file
C7_Witness ==
    /\ MergeIntoInside /\ call.move /\ call.force = "True"
    /\ call.status = "PermissionError"
    /\ FilesUnder(pre, call.src) # {}


-----------------------------------------------------------------------------
\* the last call was merge(d, d) for an existing directory d
MergeIntoItself ==
    call.op = "merge" /\ call.src = call.dst /\ isdir(pre, call.src)

(* C8 - merge(d, d) changes nothing in the filesystem, returns, and        *)
(* reports no failures: the list failed() gives after the call (where the  *)
(* thread has one at all) is empty.                                        *)
C8_MergeIntoItselfReportsNothing ==
    MergeIntoItself
        => /\ fs = pre
           /\ Returned
           /\ HasFailed => Failed = <<>>

(* C9 - a merge call that returns gives True exactly when the failure list *)
(* of the calling thread is empty after it, and False exactly when the     *)
(* list holds a record.                                                    *)
C9_MergeResultMatchesList ==
    (call.op = "merge" /\ Returned /\ HasFailed)
        => /\ call.ret = "True" <=> Failed = <<>>
           /\ call.ret = "False" <=> Failed # <<>>

\* the record r is about an entry of the last call's source tree, at its
\* own path or at the path it had in the staging directory
FromCall(r) ==
    \/ r.path \in Under(pre, call.src)
    \/ /\ Len(r.path) > Len(parent(Tdst))
       /\ IsPrefix(parent(Tdst), r.path)
       /\ IsStageName(r.path[Len(parent(Tdst)) + 1])

(* C10 - after a merge, clone or move that returns, the calling thread's   *)
(* failure list holds the records of that call only: every record is about *)
(* an entry of the call's source, and the list is empty when src and dst   *)
(* have no type conflict.                                                  *)
C10_ListIsOfLastCall ==
    (call.op \in {"merge", "clone", "move"} /\ Returned /\ HasFailed)
        => /\ \A i \in 1..Len(Failed) : FromCall(Failed[i])
           /\ ~TypeConflict => Failed = <<>>

-----------------------------------------------------------------------------
\* the last call walked the directory src into the directory Tdst
Walked(mv) == MergedDirs(mv) /\ call.src # Tdst /\ ~StrictPrefix(call.src, Tdst)

\* the folders of src that meet a file, the files of src that meet a directory
FolderConflicts ==
    {q \in FoldersUnder(pre, call.src) \ {call.src} : isfile(pre, Counterpart(q))}
FileConflicts ==
    {q \in FilesUnder(pre, call.src) : Counterpart(q) \in DOMAIN pre /\ isdir(pre, Counterpart(q))}

\* the entries of src that neither conflict nor lie under a conflicting folder
Free == {q \in Under(pre, call.src) :
            q \notin FileConflicts /\ \A p \in FolderConflicts : ~IsPrefix(p, q)}

\* p is the path the entry q of src has in the staging directory
StagedAs(q, p) ==
    /\ Len(p) > Len(parent(Tdst))
    /\ IsPrefix(parent(Tdst), p)
    /\ IsStageName(p[Len(parent(Tdst)) + 1])
    /\ Suffix(p, Len(parent(Tdst)) + 1) = Suffix(q, Len(call.src))

\* the failure list holds a record of kind d (TRUE: Directory) for entry q
RecordFor(q, d) ==
    /\ HasFailed
    /\ \E i \in 1..Len(Failed) :
          Failed[i].wasdir = d /\ (Failed[i].path = q \/ StagedAs(q, Failed[i].path))

\* the entry q of src is at its counterpart: a folder as a folder, a file as
\* a file with its content
Arrived(q) == IF pre[q].kind = "dir" THEN isdir(fs, Counterpart(q)) ELSE AtDst(q)

\* what non-force mode does with the type conflicts of a walk
ConflictsRecorded ==
    /\ \A q \in FolderConflicts : Kept(Counterpart(q)) /\ RecordFor(q, TRUE)
    /\ \A q \in FileConflicts : SameTree(Counterpart(q)) /\ RecordFor(q, FALSE)

(* C11 - a merge walk in non-force mode (src and dst not nested) returns   *)
(* whatever the type                                                       *)
(* conflicts; a file at a target folder path stays as it was and gives a   *)
(* record of kind Directory, a directory at a target file path stays       *)
(* intact and gives a record of kind File, and every entry of src without  *)
(* a conflict is copied or moved to its counterpart.                       *)
C11_NonForceConflictsRecorded ==
    ((Walked(TRUE) \/ Walked(FALSE)) /\ ~Nested(call.src, Tdst) /\ ~Forced /\ TypeConflict)
        => /\ Returned
           /\ ConflictsRecorded
           /\ \A q \in Free : Arrived(q)

\* the same for a walk in copy mode with src not inside dst
C11_CopyModeOnly ==
    (Walked(FALSE) /\ ~Nested(call.src, Tdst) /\ ~Forced /\ TypeConflict)
        => /\ Returned
           /\ ConflictsRecorded
           /\ \A q \in Free : Arrived(q)

\* what force mode does with the type conflicts of a walk: the file at a
\* target folder path gives way to the folder, which receives the files of
\* the source folder, and the directory at a target file path gives way to
\* the source file
ConflictsReplaced ==
    /\ \A q \in FolderConflicts :
          /\ isdir(fs, Counterpart(q))
          /\ \A x \in FilesUnder(pre, q) : parent(x) = q => AtDst(x)
    /\ \A q \in FileConflicts : AtDst(q)

(* C12 - a merge walk in force mode (src and dst not nested) resolves      *)
(* every type conflict by replacement and leaves the failure list empty: a *)
(* file at a target folder path is replaced by the folder, with the source *)
(* folder's files in it, and a directory at a target file path is replaced *)
(* by the source file.                                                     *)
C12_ForceReplacesConflicts ==
    ((Walked(TRUE) \/ Walked(FALSE)) /\ ~Nested(call.src, Tdst) /\ Forced /\ TypeConflict)
        => /\ Returned
           /\ HasFailed /\ Failed = <<>>
           /\ ConflictsReplaced

\* the same for a walk in copy mode
C12_CopyModeOnly ==
    (Walked(FALSE) /\ ~Nested(call.src, Tdst) /\ Forced /\ TypeConflict)
        => /\ Returned
           /\ HasFailed /\ Failed = <<>>
           /\ ConflictsReplaced

-----------------------------------------------------------------------------
\* the last call was a clone or move of an existing src whose resolved
\* destination existed as the other kind: a directory onto a file, a file
\* onto a directory
RootConflict ==
    /\ call.op \in {"clone", "move"}
    /\ call.src \in DOMAIN pre /\ Tdst \in DOMAIN pre
    /\ pre[call.src].kind # pre[Tdst].kind

(* C13 - in non-force mode a clone or move whose source and resolved       *)
(* destination exist as different kinds raises FileExistsError and leaves  *)
(* the filesystem, source and destination included, as it was.             *)
C13_RootConflictRaises ==
    (RootConflict /\ ~Forced) => call.status = "FileExistsError" /\ fs = pre

\* move(fileA, dirB) was refused for a dirB that holds an entry of its own
C13_Witness ==
    /\ RootConflict /\ ~Forced /\ call.op = "move"
    /\ isfile(pre, call.src) /\ Under(pre, Tdst) # {Tdst}
    /\ call.status = "FileExistsError"

\* the resolved destination holds exactly what src held before the call
HoldsSource ==
    /\ Under(fs, Tdst) = {Counterpart(q) : q \in Under(pre, call.src)}
    /\ \A q \in Under(pre, call.src) : fs[Counterpart(q)] = pre[q]

\* what force mode makes of a root-level type conflict: the destination is
\* replaced by the source, which a clone keeps and a move takes away
SourceReplacedDestination ==
    /\ Returned
    /\ HoldsSource
    /\ IF call.op = "clone" THEN SameTree(call.src) ELSE ~exists(fs, call.src)

(* C14 - in force mode a clone or move whose source and resolved           *)
(* destination exist as different kinds (src no folder above the           *)
(* destination) ends with the destination replaced by the source: after a  *)
(* clone it is a copy of src and src is as it was, after a move it holds   *)
(* what src held and src no longer exists.                                 *)
C14_ForceReplacesRoot ==
    (RootConflict /\ Forced /\ ~StrictPrefix(call.src, Tdst))
        => SourceReplacedDestination

\* the same for a source and a destination neither of which is inside the
\* other
C14_NotNested ==
    (RootConflict /\ Forced /\ ~Nested(call.src, Tdst))
        => SourceReplacedDestination

-----------------------------------------------------------------------------
\* p is missing from f or is a file there
NotDir(f, p) == p \notin DOMAIN f \/ f[p].kind # "dir"

(* C15 - a merge call whose src or dst is missing or is no directory       *)
(* raises NotADirectoryError and leaves the filesystem (no endpoint is     *)
(* created) and every failure list exactly as they were.                   *)
C15_MergeNeedsDirectories ==
    [][(call'.op = "merge" /\ calls' # calls
            /\ (NotDir(fs, call'.src) \/ NotDir(fs, call'.dst)))
        => /\ call'.status = "NotADirectoryError"
           /\ fs' = fs
           /\ thread_failed' = thread_failed]_vars

\* merge of a directory into a file was refused while the thread's failure
\* list held a record of an earlier call, which is still there
C15_Witness ==
    /\ call.op = "merge" /\ call.status = "NotADirectoryError"
    /\ isdir(pre, call.src) /\ isfile(pre, call.dst)
    /\ fs = pre
    /\ HasFailed /\ Failed # <<>>

-----------------------------------------------------------------------------
(* C16 - a clone or move of a src that does not exist raises               *)
(* FileNotFoundError and leaves the filesystem as it was: no destination,  *)
(* parent folder or staging entry is created and nothing is deleted.       *)
C16_MissingSourceRaises ==
    (call.op \in {"clone", "move"} /\ call.src \notin DOMAIN pre)
        => call.status = "FileNotFoundError" /\ fs = pre

\* a forced clone of a missing src was refused although a file sits where
\* the parent folder of its destination would have to be made
C16_Witness ==
    /\ call.op = "clone" /\ call.src \notin DOMAIN pre
    /\ Forced /\ isfile(pre, parent(Tdst))
    /\ call.status = "FileNotFoundError" /\ fs = pre

-----------------------------------------------------------------------------
\* the last call was a move of an existing src to a resolved destination
\* that did not exist
MoveToFree ==
    call.op = "move" /\ call.src \in DOMAIN pre /\ Tdst \notin DOMAIN pre

\* the rename fast path did its work: the parent chain of the destination
\* exists, the destination holds what src held, src is gone, the failure
\* list is empty and the resolved destination is returned
Renamed ==
    /\ Returned
    /\ \A q \in Prefixes(parent(Tdst)) : isdir(fs, q)
    /\ HoldsSource
    /\ ~exists(fs, call.src)
    /\ HasFailed /\ Failed = <<>>
    /\ call.ret = "path" /\ call.rpath = Tdst

\* a file sits on the path to the resolved destination
ChainBlocked == \E q \in Prefixes(parent(Tdst)) : isfile(pre, q)

(* C17 as stated - a move whose resolved destination does not exist makes  *)
(* the missing parent folders and renames: the destination then holds      *)
(* exactly what src held, src is gone, the failure list is empty and the   *)
(* resolved destination is returned.                                       *)
C17_MoveRenames_AsStated == MoveToFree => Renamed

(* C17 as amended - the same, for a src that is not above the resolved     *)
(* destination and, in non-force mode, a path to the destination on which  *)
(* no file sits.                                                           *)
C17_MoveRenames ==
    (MoveToFree /\ ~IsPrefix(call.src, Tdst) /\ (~ChainBlocked \/ Forced)) => Renamed

\* a tree with a file two levels down was renamed to a destination whose
\* parent folder the call had to make
C17_Witness ==
    /\ MoveToFree /\ Renamed
    /\ parent(Tdst) \notin DOMAIN pre
    /\ \E q \in FilesUnder(pre, call.src) : DeepFile(q)

-----------------------------------------------------------------------------
\* the last call was a clone or move of a folder that lies strictly above
\* its resolved destination
IntoOwnDescendant ==
    /\ call.op \in {"clone", "move"}
    /\ call.src \in DOMAIN pre /\ isdir(pre, call.src)
    /\ StrictPrefix(call.src, Tdst)

(* C18 - a clone or move of a folder that is a strict ancestor of its      *)
(* resolved destination raises an error, whether the destination existed   *)
(* before the call or not.                                                 *)
C18_IntoOwnDescendantRaises == IntoOwnDescendant => call.status # "ok"

\* a move of a folder to a free path below itself was refused
C18_Witness ==
    /\ IntoOwnDescendant /\ call.op = "move"
    /\ Tdst \notin DOMAIN pre
    /\ call.status = "Error"

-----------------------------------------------------------------------------
\* the last two calls were move(X, Y) and move(Y, X) for an existing X and
\* a Y that did not exist, neither inside the other
MovedThereAndBack ==
    /\ call.op = "move_back"
    /\ call.src \in DOMAIN pre /\ call.dst \notin DOMAIN pre
    /\ ~Nested(call.src, call.dst)

(* C19 - for an existing X and a non-existing Y, not nested, move(X, Y)    *)
(* followed by move(Y, X) ends with the tree at X as it was before the     *)
(* first move, shape and content, and with Y not existing.                 *)
C19_MoveRoundTrip ==
    MovedThereAndBack => SameTree(call.src) /\ ~exists(fs, call.dst)

\* a tree with a file two levels down came back from a Y whose parent
\* folder the first move had to make
C19_Witness ==
    /\ MovedThereAndBack /\ Returned
    /\ parent(call.dst) \notin DOMAIN pre /\ isdir(fs, parent(call.dst))
    /\ \E q \in FilesUnder(pre, call.src) : DeepFile(q) /\ Kept(q)

-----------------------------------------------------------------------------
\* the last two calls were clone(X, Y) and delete(Y) for an existing X,
\* X and Y not overlapping
ClonedAndDeleted ==
    /\ call.op = "clone_delete"
    /\ call.src \in DOMAIN pre
    /\ ~Nested(call.src, call.dst)

(* C20 as stated - for non-overlapping X and Y, clone(X, Y) followed by    *)
(* delete(Y) leaves the filesystem equal to the one before the clone, also *)
(* when parent folders of Y did not exist before the clone.                *)
C20_CloneThenDelete_AsStated == ClonedAndDeleted => fs = pre

\* the folders above Y, and the file among them that a forced clone
\* replaced by a folder
AboveDst(q) == q \in Prefixes(parent(call.dst))
Replaced(q) == AboveDst(q) /\ isfile(pre, q) /\ Forced

(* C20 as amended - for non-overlapping X and Y with Y not existing before *)
(* the clone, clone(X, Y) followed by delete(Y) leaves Y not existing and  *)
(* every other entry as before the clone, but for the parent folders of Y  *)
(* that the clone made: they remain (in force mode in the place of a file  *)
(* that stood in their way).                                               *)
C20_CloneThenDelete ==
    (ClonedAndDeleted /\ call.dst \notin DOMAIN pre)
        => /\ ~exists(fs, call.dst)
           /\ \A q \in DOMAIN pre : Kept(q) \/ Replaced(q)
           /\ \A q \in DOMAIN fs \ DOMAIN pre : AboveDst(q) /\ isdir(fs, q)
           /\ \A q \in DOMAIN fs : Replaced(q) => isdir(fs, q)

\* the clone of a tree with a file two levels down was deleted again, and
\* the parent folder of Y that the clone made is still there
C20_Witness ==
    /\ ClonedAndDeleted /\ call.dst \notin DOMAIN pre
    /\ call.ret = "True"
    /\ parent(call.dst) \notin DOMAIN pre /\ isdir(fs, parent(call.dst))
    /\ \E q \in FilesUnder(pre, call.src) : DeepFile(q) /\ Kept(q)

-----------------------------------------------------------------------------
\* the failure list of thread T is the same before and after the step
SameList(T) ==
    /\ T \in DOMAIN thread_failed' <=> T \in DOMAIN thread_failed
    /\ T \in DOMAIN thread_failed => thread_failed'[T] = thread_failed[T]

(* C21 - the failure list is per thread: a merge, clone, move or paste     *)
(* call of one thread leaves the list of every other thread as it was, so  *)
(* failed() in a thread gives what that thread's own calls published,      *)
(* whatever calls other threads made in between.                           *)
C21_FailureListPerThread ==
    [][calls' # calls => \A T \in AllThreads : T # call'.thread => SameList(T)]_vars

\* the worker thread pasted and has a list of its own, while the list the
\* main thread got from its call before still holds that call's record
C21_Witness ==
    /\ calls = MaxThreadCalls /\ call.op = "paste" /\ call.thread = "worker"
    /\ call.status = "ok"
    /\ "main" \in DOMAIN thread_failed /\ "worker" \in DOMAIN thread_failed
    /\ thread_failed["main"] # <<>>
    /\ thread_failed["worker"] = <<>>

-----------------------------------------------------------------------------
\* the last call done again on the tree it found, with the given force
\* argument under the given process-wide default
Redo(force, df) ==
    IF call.op = "merge"
    THEN merge(pre, [x \in {} |-> <<>>], call.thread, call.src, call.dst, call.move, force, df)
    ELSE IF call.op = "clone"
    THEN clone(pre, [x \in {} |-> <<>>], call.thread, call.src, call.dst, call.into, force, df)
    ELSE move(pre, [x \in {} |-> <<>>], call.thread, call.src, call.dst, call.into, force, df)

\* r is what the last call did: the tree, the error or value, the list
SameOutcome(r) ==
    /\ r.fs = fs /\ r.status = call.status /\ r.ret = call.ret /\ r.rpath = call.rpath
    /\ call.thread \in DOMAIN r.failed => HasFailed /\ Failed = r.failed[call.thread]

\* the type-mismatched destination of the last call is still what it was
MismatchKept == Tdst \in DOMAIN fs /\ fs[Tdst] = pre[Tdst]

(* C22 - the force mode of merge, clone and move is the force argument     *)
(* when it is not None, whatever the process-wide default: the call does   *)
(* the same under either default, force=False never deletes a              *)
(* type-mismatched destination (root level: FileExistsError, nothing       *)
(* changed; in a walk: the entry stays), force=True always removes the     *)
(* mismatched root destination; with None the call does what it does with  *)
(* the default given as the argument.                                      *)
C22_ForceArgumentFirst ==
    call.op \in {"merge", "clone", "move"}
        => /\ call.force # None => \A b \in BOOLEAN : SameOutcome(Redo(call.force, b))
           /\ call.force = None =>
                 SameOutcome(Redo(IF default_force THEN "True" ELSE "False", ~default_force))
           /\ (call.force = "False" /\ RootConflict)
                 => call.status = "FileExistsError" /\ fs = pre
           /\ (call.force = "False" /\ (Walked(TRUE) \/ Walked(FALSE))
                                    /\ ~Nested(call.src, Tdst))
                 => \A q \in FolderConflicts \cup FileConflicts : Kept(Counterpart(q))
           /\ (call.force = "True" /\ RootConflict) => ~MismatchKept

\* under the default True a clone with force=False was refused at a
\* type-mismatched destination
C22_Witness ==
    /\ default_force /\ call.force = "False" /\ call.op = "clone"
    /\ RootConflict /\ call.status = "FileExistsError" /\ fs = pre

-----------------------------------------------------------------------------
\* the last call was a paste and every mark it found was a single path
PastedPaths ==
    /\ call.op = "paste"
    /\ \A i \in DOMAIN call.cut : call.cut[i].kind = "path"
    /\ \A i \in DOMAIN call.copied : call.copied[i].kind = "path"

(* C23 - after a paste (the marks it found being paths), whether or not    *)
(* some of them fail, both mark lists are empty and the calling thread has *)
(* a failure list, set by that paste.                                      *)
C23_PasteClearsMarks ==
    PastedPaths
        => /\ _cut_files = <<>> /\ _copied_files = <<>>
           /\ call.status = "ok"
           /\ HasFailed

\* the marks of list that exist in the tree the paste found
Existing(list) == SelectSeq(list, LAMBDA m : exists(pre, m.path))

\* the last paste found a mark whose path did not exist
PastedMissing ==
    /\ PastedPaths
    /\ Existing(call.cut) # call.cut \/ Existing(call.copied) # call.copied

\* the tree the last paste leaves when only the existing marks are given
PasteOfExisting ==
    paste(pre, [x \in {} |-> <<>>], call.thread, Existing(call.cut), Existing(call.copied),
          call.dst, call.root, call.force, default_force).fs

(* C24 - a paste that finds a marked path missing raises no error and      *)
(* leaves the tree that the paste of the other marks alone leaves.         *)
C24_PasteIgnoresMissing ==
    PastedMissing => call.status = "ok" /\ fs = PasteOfExisting

(* C25 - a paste that returns gives True when the failure list it set is   *)
(* empty and False when the list holds a record.                           *)
C25_PasteResult ==
    (PastedPaths /\ call.status = "ok" /\ HasFailed)
        => call.ret = IF Failed = <<>> THEN "True" ELSE "False"

\* the paths of an argument list, flattened one level, in argument order
RECURSIVE Flattened(_)
Flattened(src) ==
    IF src = <<>> THEN <<>>
    ELSE (IF Head(src).kind = "path" THEN <<Head(src)>> ELSE Head(src).elems)
             \o Flattened(Tail(src))

(* C26 - cut(src...) leaves the cut list with exactly the given paths,     *)
(* flattened one level, in argument order (what unmark() followed by       *)
(* a_cut(src...) leaves) and the copied list empty; copy(src...) likewise  *)
(* for the copied list; a_cut(src...) and a_copy(src...) append those      *)
(* paths to their own list and leave the earlier marks and the other list  *)
(* as they were.                                                           *)
C26_CutIsUnmarkThenACut ==
    /\ call.op = "cut"
          => /\ _cut_files = Flattened(call.args) /\ _copied_files = <<>>
             /\ _cut_files = a_cut(unmark.cut, call.args)
    /\ call.op = "copy"
          => /\ _copied_files = Flattened(call.args) /\ _cut_files = <<>>
             /\ _copied_files = a_copy(unmark.copied, call.args)
    /\ call.op = "a_cut"
          => _cut_files = call.cut \o Flattened(call.args) /\ _copied_files = call.copied
    /\ call.op = "a_copy"
          => _copied_files = call.copied \o Flattened(call.args) /\ _cut_files = call.cut

\* the part of C26 about a_cut and a_copy alone
C26_AppendOnly ==
    /\ call.op = "a_cut"
          => _cut_files = call.cut \o Flattened(call.args) /\ _copied_files = call.copied
    /\ call.op = "a_copy"
          => _copied_files = call.copied \o Flattened(call.args) /\ _cut_files = call.cut

-----------------------------------------------------------------------------
\* the last call was a clone or move of an existing source that ended
\* with a hard error
HardError ==
    /\ call.op \in {"clone", "move"}
    /\ exists(pre, call.src)
    /\ call.status # "ok"

(* C29 - when a clone or move of an existing source ends with a hard       *)
(* error, the source is still at its path with exactly what it held before *)
(* the call: the same files and folders, nothing added and nothing         *)
(* removed.                                                                *)
C29_HardErrorKeepsSource ==
    HardError => SameTree(call.src)

-----------------------------------------------------------------------------
(* C27 - in every merge under way, the deletion of the source tree (move   *)
(* mode) or the way back of the staged source has run only when no folder  *)
(* that os.walk has listed is still to be visited.                         *)
C27_PostWalkAfterWalk ==
    \A i \in DOMAIN walk : walk[i].post => walk[i].stack = <<>>

\* the last call was a merge or the clone of a directory, it was in force
\* mode when it was called, and it has ended
ForcedCallEnded ==
    /\ call.op \in {"merge", "clone"}
    /\ ~Running
    /\ call.forced

(* C28 - a merge or clone call that was in force mode when it was called   *)
(* ends as the same call with force=True ends (the same tree, result and   *)
(* failure list), whatever qfile.default_force is set to while it runs.    *)
C28_ForcedThroughout ==
    ForcedCallEnded => SameOutcome(Redo("True", TRUE))

\* the same for merge calls alone
C28_MergeOnly ==
    (ForcedCallEnded /\ call.op = "merge") => SameOutcome(Redo("True", TRUE))

\* the folders the source of the last call held before the call, at the
\* place the walk of frame fr finds them
SourceFolders(fr) ==
    {fr.c.src_path \o Suffix(q, Len(fr.c.src)) : q \in FoldersUnder(pre, fr.c.src)}

\* a staged source lies next to dst, outside dst and outside src
StagedOutside(fr) ==
    fr.c.rel_dst # {}
        => /\ parent(fr.c.src_path) = parent(fr.c.dst)
           /\ ~IsPrefix(fr.c.dst, fr.c.src_path)
           /\ ~IsPrefix(fr.c.src, fr.c.src_path)
           /\ fr.c.src_path \notin DOMAIN pre

\* at most one merge inside the merge of the call, which stages nothing,
\* and the walk of the call visits folders of its source only
C30_Bounded ==
    /\ Len(walk) <= 2
    /\ \A i \in DOMAIN walk : StagedOutside(walk[i])
    /\ \A i \in DOMAIN walk : i > 1 => walk[i].c.rel_dst = {}
    /\ walk # <<>> => walk[1].seen \subseteq SourceFolders(walk[1])

(* C30 - every merge call that has begun ends, with a return or an error,  *)
(* also when src is inside dst: the staging place is a sibling of dst      *)
(* outside both trees, the walk visits folders of the source only, the     *)
(* merge of the way back stages nothing and the depth of merges inside     *)
(* merges is at most one.                                                  *)
C30_MergeTerminates ==
    []C30_Bounded /\ (Running ~> ~Running)

\* a merge of a folder with a subfolder from inside dst has returned
C30_Witness ==
    /\ call.op = "merge" /\ call.status = "ok"
    /\ StrictPrefix(call.dst, call.src)
    /\ \E q \in FoldersUnder(pre, call.src) : q # call.src

====
